---- MODULE Spec2Model ----
(***************************************************************************)
(* es6-css-minify: the extension of src/src/extension.ts as a state        *)
(* machine.  Strings are sequences of one-character strings, a file path   *)
(* is the sequence of its components (the root "/" is <<>>), an optional   *)
(* value is a sequence of length 0 or 1.  The boolean values of the        *)
(* minifyOnSave setting are written "true" and "false" next to "yes", "no" *)
(* and "exists".                                                           *)
(***************************************************************************)
EXTENDS Integers, Sequences, FiniteSets, TLC

VARIABLES settings, rcfiles, hasWorkspace, config, active, files, minifyButton, run

vars == <<settings, rcfiles, hasWorkspace, config, active, files, minifyButton, run>>

(***************************************************************************)
(* Bounds and the small universe of names, directories and settings.       *)
(***************************************************************************)
\* the largest number of dot-separated segments of a document's base name
MaxSegs == 3

MIN == <<"m", "i", "n">>
MAPSUFFIX == <<".", "m", "a", "p">>

\* the dot-free pieces document names are built from
SegAtoms == {<<>>, <<"a">>, MIN}

\* directories that exist on disk: /, /w (the workspace root), /w/s, /w/o
RootDir == << <<"w">> >>
SrcDir == << <<"w">>, <<"s">> >>
OutDir == << <<"w">>, <<"o">> >>
Dirs == {<<>>, RootDir, SrcDir, OutDir}

LanguageIds == {"javascript", "css", "html"}

(***************************************************************************)
(* String and path primitives of JavaScript and of Node's path module.     *)
(***************************************************************************)
\* index of the first occurrence of character c in s, 0 when there is none
IndexOf(s, c) ==
    IF \E i \in 1..Len(s) : s[i] = c
    THEN CHOOSE i \in 1..Len(s) : s[i] = c /\ \A j \in 1..(i - 1) : s[j] # c
    ELSE 0

\* index of the last occurrence of character c in s, 0 when there is none
LastIndexOf(s, c) ==
    IF \E i \in 1..Len(s) : s[i] = c
    THEN CHOOSE i \in 1..Len(s) : s[i] = c /\ \A j \in (i + 1)..Len(s) : s[j] # c
    ELSE 0

\* String.prototype.split(sep) for a one-character separator
RECURSIVE split(_, _)
split(s, sep) ==
    LET i == IndexOf(s, sep)
    IN  IF i = 0 THEN <<s>>
        ELSE <<SubSeq(s, 1, i - 1)>> \o split(SubSeq(s, i + 1, Len(s)), sep)

\* Array.prototype.join(sep)
RECURSIVE join(_, _)
join(parts, sep) ==
    IF parts = <<>> THEN <<>>
    ELSE IF Len(parts) = 1 THEN parts[1]
    ELSE parts[1] \o <<sep>> \o join(Tail(parts), sep)

\* Array.prototype.pop(), as the array that is left
pop(a) == IF a = <<>> THEN a ELSE SubSeq(a, 1, Len(a) - 1)

\* String.prototype.replace(c, ''): the first occurrence of c is removed
replaceFirst(s, c) ==
    LET i == IndexOf(s, c)
    IN  IF i = 0 THEN s ELSE SubSeq(s, 1, i - 1) \o SubSeq(s, i + 1, Len(s))

\* path.basename and path.dirname of a path given by its components
basename(p) == IF p = <<>> THEN <<>> ELSE p[Len(p)]
dirname(p) == IF p = <<>> THEN <<>> ELSE SubSeq(p, 1, Len(p) - 1)

\* path.extname of a base name: from the last dot to the end; empty when
\* there is no dot, when the only dot is the first character, or for ".."
extname(b) ==
    LET d == LastIndexOf(b, ".")
    IN  IF d = 0 \/ d = 1 \/ b = <<".", ".">> THEN <<>>
        ELSE SubSeq(b, d, Len(b))

\* path.join: the components in order, normalized ("" and "." are dropped,
\* ".." removes the component before it)
RECURSIVE normalize(_, _)
normalize(acc, rest) ==
    IF rest = <<>> THEN acc
    ELSE LET c == Head(rest)
         IN  IF c = <<>> \/ c = <<".">> THEN normalize(acc, Tail(rest))
             ELSE IF c = <<".", ".">> THEN normalize(pop(acc), Tail(rest))
             ELSE normalize(Append(acc, c), Tail(rest))

pathJoin(parts) == normalize(<<>>, parts)

\* string concatenation path + suffix
pathPlus(p, suffix) ==
    IF p = <<>> THEN <<suffix>> ELSE [p EXCEPT ![Len(p)] = @ \o suffix]

\* fs.existsSync
existsSync(fl, p) == p \in Dirs \/ p \in fl

(***************************************************************************)
(* Documents.                                                              *)
(***************************************************************************)
RECURSIVE SegSeqs(_)
SegSeqs(n) ==
    IF n = 0 THEN {<<>>}
    ELSE {Append(s, a) : s \in SegSeqs(n - 1), a \in SegAtoms}

\* the base names a file can have: up to MaxSegs segments joined by dots
BaseNames ==
    {join(s, ".") : s \in UNION {SegSeqs(n) : n \in 1..MaxSegs}}
        \ {<<>>, <<".">>, <<".", ".">>}

Doc(dir, base, lang, untitled) ==
    [fsPath |-> Append(dir, base), languageId |-> lang, isUntitled |-> untitled]

\* saved documents of the source directory
Docs == {Doc(SrcDir, b, l, FALSE) : b \in BaseNames, l \in LanguageIds}

\* documents that were never written to disk
UntitledDocs == {Doc(<<>>, <<"a">>, l, TRUE) : l \in {"javascript", "html"}}

(***************************************************************************)
(* Configuration.                                                          *)
(***************************************************************************)
\* an option blob of a minifier: where it was read from and its sourceMap
\* option (absent, or one value)
Blob(origin) == [origin |-> origin, sourceMap |-> <<>>]

\* the settings of the editor before the user changes any
DefaultSettings ==
    [minifyOnSave |-> "no", hideButton |-> FALSE,
     uglifyConfigFile |-> <<".", "u">>, genJSmap |-> FALSE,
     jsMapSource |-> <<>>, jsMinPath |-> <<>>, jsPostfix |-> MIN,
     js |-> Blob("settings"),
     cleancssConfigFile |-> <<".", "c">>, genCSSmap |-> FALSE,
     cssMapSource |-> <<>>, cssMinPath |-> <<>>, cssPostfix |-> <<>>,
     css |-> Blob("settings")]

Postfixes == {<<>>, MIN}
\* no output directory, one that exists (/w/o), one that does not (/w/g)
MinPaths == {<<>>, <<"o">>, <<"g">>}

(***************************************************************************)
(* getMinOutPath                                                           *)
(***************************************************************************)
\* the output file name: lines 140-150
baseOut(cfg, doc) ==
    LET base == basename(doc.fsPath)
        ext == extname(base)
        p0 == pop(split(base, "."))
        p1 == IF cfg.jsPostfix # <<>> THEN Append(p0, cfg.jsPostfix) ELSE p0
        p2 == IF cfg.cssPostfix # <<>> THEN Append(p1, cfg.cssPostfix) ELSE p1
        p3 == Append(p2, replaceFirst(ext, "."))
    IN  join(p3, ".")

\* the output path, <<>> standing for the empty string of line 172
getMinOutPath(cfg, ws, doc) ==
    LET dir == dirname(doc.fsPath)
        out == baseOut(cfg, doc)
    IN  IF doc.languageId = "javascript"
        THEN IF cfg.jsMinPath # <<>> /\ ws
             THEN pathJoin(RootDir \o <<cfg.jsMinPath, out>>)
             ELSE pathJoin(dir \o <<out>>)
        ELSE IF doc.languageId = "css"
        THEN IF cfg.cssMinPath # <<>> /\ ws
             THEN pathJoin(RootDir \o <<cfg.cssMinPath, out>>)
             ELSE pathJoin(dir \o <<out>>)
        ELSE <<>>

(***************************************************************************)
(* loadConfig                                                              *)
(***************************************************************************)
\* an override file on disk is "absent", "malformed" (unreadable or not
\* JSON) or "valid"; JSON.parse(fs.readFileSync(..)) of a valid one
parseRc(origin) == Blob(origin)

\* lines 80-95: the uglify override replaces the js blob when it parses
loadUglifyrc(c, rc) ==
    IF rc.js = "absent" THEN [cfg |-> c, msgs |-> <<>>]
    ELSE IF rc.js = "valid"
    THEN [cfg |-> [c EXCEPT !.js = parseRc("uglifyrc")], msgs |-> <<>>]
    ELSE [cfg |-> c, msgs |-> <<"error: Failed to parse uglifyrc">>]

\* lines 99-114: the clean-css override replaces the css blob when it parses
loadCleancssrc(c, rc) ==
    IF rc.css = "absent" THEN [cfg |-> c, msgs |-> <<>>]
    ELSE IF rc.css = "valid"
    THEN [cfg |-> [c EXCEPT !.css = parseRc("cleancssrc")], msgs |-> <<>>]
    ELSE [cfg |-> c, msgs |-> <<"error: Failed to parse cleancssrc">>]

\* mutant: the "return _config" that lines 91 and 110 comment out is taken,
\* a failed override ends loadConfig
loadConfig_ReturnOnError(opts, st, ws, rc, glob) ==
    IF ~ws THEN [ret |-> st, glob |-> glob, msgs |-> <<>>]
    ELSE LET j == loadUglifyrc(st, rc)
             c == loadCleancssrc(j.cfg, rc)
         IN  IF j.msgs # <<>> THEN [ret |-> j.cfg, glob |-> glob, msgs |-> j.msgs]
             ELSE IF c.msgs # <<>>
             THEN [ret |-> c.cfg, glob |-> glob, msgs |-> c.msgs]
             ELSE [ret |-> c.cfg,
                   glob |-> IF opts.setGlobal THEN c.cfg ELSE glob,
                   msgs |-> IF opts.showMessage
                            THEN <<"info: Minify configuration reloaded.">>
                            ELSE <<>>]

\* loadConfig(opts) called while the global configuration is glob: the value
\* returned, the global configuration afterwards and the messages shown.
\* JSON.parse(JSON.stringify(..)) of line 66 copies the settings, which hold
\* JSON values only.
loadConfig(opts, st, ws, rc, glob) ==
    IF ~ws THEN [ret |-> st, glob |-> glob, msgs |-> <<>>]
    ELSE LET j == IF opts.loadExternal THEN loadUglifyrc(st, rc)
                  ELSE [cfg |-> st, msgs |-> <<>>]
             c == IF opts.loadExternal THEN loadCleancssrc(j.cfg, rc)
                  ELSE [cfg |-> j.cfg, msgs |-> <<>>]
         IN  [ret |-> c.cfg,
              glob |-> IF opts.setGlobal THEN c.cfg ELSE glob,
              msgs |-> j.msgs \o c.msgs \o
                       (IF opts.showMessage
                        THEN <<"info: Minify configuration reloaded.">>
                        ELSE <<>>)]

\* the default parameter of line 63, used when the command passes nothing
DefaultConfSettings == [showMessage |-> TRUE, loadExternal |-> TRUE, setGlobal |-> TRUE]

(***************************************************************************)
(* sendToFile and minify                                                   *)
(***************************************************************************)
\* what a handler has done so far: the global configuration, the files on
\* disk, the paths handed to fs.writeFileSync, the messages shown, the
\* minifier invoked and whether an exception left the handler
Effects(cfg, fl) ==
    [config |-> cfg, files |-> fl, writes |-> <<>>, msgs |-> <<>>,
     invoked |-> "none", fault |-> FALSE, threw |-> FALSE]

\* fs.writeFileSync throws for a directory and for a missing parent
writeThrows(p) == p \in Dirs \/ dirname(p) \notin Dirs

\* sendToFile(path, content, stats): e.threw tells that writeFileSync threw
sendToFile(e, p, stats) ==
    LET m == IF stats THEN Append(e.msgs, "status: Minified file is smaller") ELSE e.msgs
    IN  [e EXCEPT !.msgs = m,
                  !.writes = Append(@, p),
                  !.files = IF writeThrows(p) THEN @ ELSE @ \cup {p},
                  !.threw = writeThrows(p)]

\* outcomes of terser.minify: it throws, it returns no code property (an
\* error object), empty code, code, or code and a source map
JSResults == {"throw", "nocode", "empty", "code", "codemap"}
\* outcomes handed to the clean-css callback: no result, empty styles,
\* styles, or styles and a source map
CSSResults == {"none", "empty", "styles", "stylesmap"}

\* mutant: the length test is off by one
alreadyMinified_OffByOne(base) ==
    LET parts == split(base, ".")
    IN  Len(parts) > 3 /\ parts[Len(parts) - 1] = MIN

\* lines 224-231
alreadyMinified(base) ==
    LET parts == split(base, ".")
    IN  Len(parts) > 2 /\ parts[Len(parts) - 1] = MIN

\* mutant: the existence test of the output directory is dropped
outDirMissing_Never(fl, outpath) == FALSE

\* line 234
outDirMissing(fl, outpath) == ~existsSync(fl, dirname(outpath))

\* lines 251-258
injectJsMap(cfg, base, outpath) ==
    IF cfg.genJSmap
    THEN [cfg EXCEPT !.js.sourceMap =
            << [filename |-> IF cfg.jsMapSource # <<>>
                             THEN pathJoin(<<cfg.jsMapSource, base>>)
                             ELSE <<base>>,
                url |-> basename(outpath) \o MAPSUFFIX] >>]
    ELSE cfg

\* mutant: the sourceMap option is set whatever genCSSmap says
injectCssMap_Always(cfg) == [cfg EXCEPT !.css.sourceMap = <<TRUE>>]

\* lines 286-288
injectCssMap(cfg) ==
    IF cfg.genCSSmap THEN [cfg EXCEPT !.css.sourceMap = <<TRUE>>] ELSE cfg

\* mutant: the test for empty code is dropped
jsHasCode_Any(res) == TRUE

\* line 262: the result has code to write
jsHasCode(res) == res \in {"code", "codemap"}

\* line 294
cssHasStyles(res) == res \in {"styles", "stylesmap"}

SyntaxError == "error: Minify failed. This is probably caused by a syntax error."
MinifyFailed == "error: Minify failed."

\* lines 244-281, with the catch of line 277
minifyJS(e0, base, outpath, res) ==
    LET e1 == [e0 EXCEPT !.config = injectJsMap(@, base, outpath), !.invoked = "js"]
        caught(e) == [e EXCEPT !.msgs = Append(@, SyntaxError), !.threw = FALSE]
    IN  IF res \in {"throw", "nocode"} THEN caught(e1)
        ELSE IF ~jsHasCode(res) THEN [e1 EXCEPT !.msgs = Append(@, MinifyFailed)]
        ELSE LET e2 == sendToFile(e1, outpath, TRUE)
             IN  IF e2.threw THEN caught(e2)
                 ELSE IF res = "codemap"
                 THEN LET e3 == sendToFile(e2, pathPlus(outpath, MAPSUFFIX), FALSE)
                      IN  IF e3.threw THEN caught(e3) ELSE e3
                 ELSE e2

\* lines 284-328; nothing catches what the callback throws
minifyCSS(e0, outpath, res) ==
    LET e1 == [e0 EXCEPT !.config = injectCssMap(@), !.invoked = "css"]
        uncaught(e) == [e EXCEPT !.fault = TRUE, !.threw = FALSE]
    IN  IF ~cssHasStyles(res) THEN [e1 EXCEPT !.msgs = Append(@, MinifyFailed)]
        ELSE IF e1.config.genCSSmap
        THEN LET e2 == sendToFile(e1, outpath, TRUE)
             IN  IF e2.threw THEN uncaught(e2)
                 \* JSON.parse(JSON.stringify(undefined)) throws
                 ELSE IF res = "styles" THEN uncaught(e2)
                 ELSE LET e3 == sendToFile(e2, pathPlus(outpath, MAPSUFFIX), FALSE)
                      IN  IF e3.threw THEN uncaught(e3) ELSE e3
        ELSE LET e2 == sendToFile(e1, outpath, TRUE)
             IN  IF e2.threw THEN uncaught(e2) ELSE e2

\* the validation of lines 196-237: "" when it passes, else the guard
guard(cfg, ws, act, fl) ==
    IF act = <<>> THEN "noDocument"
    ELSE IF act[1].isUntitled THEN "untitled"
    ELSE IF act[1].languageId \notin {"javascript", "css"} THEN "unsupported"
    ELSE IF alreadyMinified(basename(act[1].fsPath)) THEN "alreadyMinified"
    ELSE IF outDirMissing(fl, getMinOutPath(cfg, ws, act[1])) THEN "pathNotFound"
    ELSE ""

guardMessage(g) ==
    IF g = "noDocument" THEN <<>>
    ELSE IF g = "untitled" THEN <<"status: File must be saved before minify can run">>
    ELSE IF g = "unsupported" THEN <<"warning: File type is not supported">>
    ELSE IF g = "alreadyMinified" THEN <<"warning: File already minified.">>
    ELSE <<"warning: Could not write file to folder. Path not found.">>

\* minify(): the effects of one run on top of e0, res the minifier's outcome
minify(e0, ws, act, res) ==
    LET g == guard(e0.config, ws, act, e0.files)
    IN  IF g # "" THEN [e0 EXCEPT !.msgs = @ \o guardMessage(g)]
        ELSE LET doc == act[1]
                 outpath == getMinOutPath(e0.config, ws, doc)
             IN  IF doc.languageId = "javascript"
                 THEN minifyJS(e0, basename(doc.fsPath), outpath, res)
                 ELSE minifyCSS(e0, outpath, res)

\* the outcomes the minifier can have in a run of minify()
resultsFor(cfg, ws, act, fl) ==
    IF guard(cfg, ws, act, fl) # "" THEN {"n/a"}
    ELSE IF act[1].languageId = "javascript" THEN JSResults ELSE CSSResults

(***************************************************************************)
(* The handlers registered by activate, as actions.  run describes what    *)
(* the last handler did.                                                   *)
(***************************************************************************)
NoRun(op) ==
    [op |-> op, saved |-> <<>>, checked |-> <<>>, called |-> FALSE,
     doc |-> <<>>, result |-> "n/a", invoked |-> "none",
     writes |-> <<>>, msgs |-> <<>>, fault |-> FALSE, returned |-> <<>>]

\* the command es6-css-minify.minify (line 342) and the status bar button
MinifyCommand ==
    \E res \in resultsFor(config, hasWorkspace, active, files) :
        \E e \in {minify(Effects(config, files), hasWorkspace, active, res)} :
            /\ config' = e.config
            /\ files' = e.files
            /\ run' = [NoRun("minify") EXCEPT
                         !.called = TRUE, !.doc = active,
                         !.result = res, !.invoked = e.invoked,
                         !.writes = e.writes, !.msgs = e.msgs, !.fault = e.fault]
            /\ UNCHANGED <<settings, rcfiles, hasWorkspace, active, minifyButton>>

\* mutant: "exists" no longer looks for the output file
shouldMinifyOnSave_NoExistsTest(cfg, ws, fl, d) ==
    /\ d.languageId \in {"css", "javascript"}
    /\ cfg.minifyOnSave \in {"exists", "yes", "true"}

\* lines 354-366: the save handler calls minify()
shouldMinifyOnSave(cfg, ws, fl, d) ==
    /\ d.languageId \in {"css", "javascript"}
    /\ cfg.minifyOnSave # "no"
    /\ cfg.minifyOnSave # "false"
    /\ \/ cfg.minifyOnSave = "exists" /\ existsSync(fl, getMinOutPath(cfg, ws, d))
       \/ cfg.minifyOnSave = "yes"
       \/ cfg.minifyOnSave = "true"

\* line 356: the output path the save handler computes, when it gets there
savedOutPath(cfg, ws, d) ==
    IF /\ d.languageId \in {"css", "javascript"}
       /\ cfg.minifyOnSave # "no"
       /\ cfg.minifyOnSave # "false"
    THEN <<getMinOutPath(cfg, ws, d)>>
    ELSE <<>>

\* the editor has written document d to disk and fires onDidSaveTextDocument
SaveDocument(d) ==
    LET fl == files \cup {d.fsPath}
    IN  /\ ~d.isUntitled
        /\ IF shouldMinifyOnSave(config, hasWorkspace, fl, d)
           THEN \E res \in resultsFor(config, hasWorkspace, active, fl) :
                    \E e \in {minify(Effects(config, fl), hasWorkspace, active, res)} :
                        /\ config' = e.config
                        /\ files' = e.files
                        /\ run' = [NoRun("save") EXCEPT
                                     !.saved = <<d>>,
                                     !.checked = savedOutPath(config, hasWorkspace, d),
                                     !.called = TRUE, !.doc = active,
                                     !.result = res, !.invoked = e.invoked,
                                     !.writes = e.writes, !.msgs = e.msgs,
                                     !.fault = e.fault]
           ELSE /\ config' = config
                /\ files' = fl
                /\ run' = [NoRun("save") EXCEPT
                             !.saved = <<d>>,
                             !.checked = savedOutPath(config, hasWorkspace, d)]
        /\ UNCHANGED <<settings, rcfiles, hasWorkspace, active, minifyButton>>

\* the command es6-css-minify.loadConfig (line 341), run without arguments
LoadConfigCommand ==
    LET r == loadConfig(DefaultConfSettings, settings, hasWorkspace, rcfiles, config)
    IN  /\ config' = r.glob
        /\ run' = [NoRun("loadConfig") EXCEPT !.msgs = r.msgs, !.returned = <<r.ret>>]
        /\ UNCHANGED <<settings, rcfiles, hasWorkspace, active, files, minifyButton>>

\* the user changes the settings to st and onDidChangeConfiguration fires
\* (lines 396-404)
ChangeConfiguration(st) ==
    LET r == loadConfig([showMessage |-> TRUE, loadExternal |-> TRUE, setGlobal |-> FALSE],
                        st, hasWorkspace, rcfiles, config)
    IN  /\ st # settings
        /\ settings' = st
        /\ config' = r.ret
        /\ run' = [NoRun("changeConfig") EXCEPT !.msgs = r.msgs, !.returned = <<r.ret>>]
        /\ UNCHANGED <<rcfiles, hasWorkspace, active, files, minifyButton>>

\* doc.uri.fsPath as a string
RECURSIVE pathString(_)
pathString(p) == IF p = <<>> THEN <<>> ELSE <<"/">> \o Head(p) \o pathString(Tail(p))

\* lines 381-388: the button is hidden for this document
hidesButton(doc) ==
    LET da == split(pathString(doc.fsPath), ".")
    IN  \/ doc.languageId \notin {"javascript", "css"}
        \/ (Len(da) >= 2 /\ da[Len(da) - 1] = MIN)

\* onDidOpenTextDocument (lines 373-394)
OpenTextDocument ==
    /\ minifyButton' =
         IF active = <<>> \/ config.hideButton = FALSE THEN minifyButton
         ELSE IF hidesButton(active[1]) THEN "hidden" ELSE "shown"
    /\ run' = NoRun("open")
    /\ UNCHANGED <<settings, rcfiles, hasWorkspace, config, active, files>>

\* a call of the exported getMinOutPath on document d
GetMinOutPath(d) ==
    /\ run' = [NoRun("getMinOutPath") EXCEPT
                 !.saved = <<d>>,
                 !.checked = <<getMinOutPath(config, hasWorkspace, d)>>]
    /\ UNCHANGED <<settings, rcfiles, hasWorkspace, config, active, files, minifyButton>>

\* the environment: the user shows another document (or none) in the editor
SwitchEditor(a) ==
    /\ a # active
    /\ active' = a
    /\ run' = NoRun("switchEditor")
    /\ UNCHANGED <<settings, rcfiles, hasWorkspace, config, files, minifyButton>>

\* the environment: an override file of the workspace is written or removed
EditRcFile(k, v) ==
    /\ hasWorkspace
    /\ rcfiles[k] # v
    /\ rcfiles' = [rcfiles EXCEPT ![k] = v]
    /\ run' = NoRun("editRcFile")
    /\ UNCHANGED <<settings, hasWorkspace, config, active, files, minifyButton>>

RcStates == {"absent", "malformed", "valid"}
NoRcFiles == [js |-> "absent", css |-> "absent"]

\* the state activate() leaves (lines 332-408)
Activated(st, ws, rc, act, fl) ==
    LET r == loadConfig([showMessage |-> FALSE, loadExternal |-> TRUE, setGlobal |-> FALSE],
                        st, ws, rc, st)
    IN  /\ settings = st
        /\ hasWorkspace = ws
        /\ rcfiles = rc
        /\ config = r.ret
        /\ active = act
        /\ files = fl
        /\ minifyButton = "shown"
        /\ run = [NoRun("activate") EXCEPT !.msgs = r.msgs, !.returned = <<r.ret>>]

(***************************************************************************)
(* SpecPath: getMinOutPath on every document under every configuration of  *)
(* postfixes and output directories.                                       *)
(***************************************************************************)
PathSettings ==
    {[DefaultSettings EXCEPT !.jsPostfix = jp, !.cssPostfix = cp,
                             !.jsMinPath = jm, !.cssMinPath = cm] :
        jp \in Postfixes, cp \in Postfixes, jm \in MinPaths, cm \in MinPaths}

InitPath ==
    \E st \in PathSettings, ws \in BOOLEAN : Activated(st, ws, NoRcFiles, <<>>, {})

NextPath == \E d \in Docs : GetMinOutPath(d)

SpecPath == InitPath /\ [][NextPath]_vars

(***************************************************************************)
(* SpecMinify: the minify command on every document.                       *)
(***************************************************************************)
MinifySettings ==
    {[DefaultSettings EXCEPT !.jsPostfix = jp, !.cssPostfix = cp,
                             !.jsMinPath = m, !.cssMinPath = m,
                             !.genJSmap = gj, !.genCSSmap = gc] :
        jp \in Postfixes, cp \in Postfixes, m \in MinPaths,
        gj \in BOOLEAN, gc \in BOOLEAN}

\* every JavaScript and CSS document, and one of another language
MinifyDocs == {d \in Docs : d.languageId # "html" \/ basename(d.fsPath) = <<"a">>}

InitMinify ==
    \E st \in MinifySettings, ws \in BOOLEAN,
       act \in {<<>>} \cup {<<d>> : d \in MinifyDocs \cup UntitledDocs} :
        Activated(st, ws, NoRcFiles, act,
                  IF act = <<>> \/ act[1].isUntitled THEN {} ELSE {act[1].fsPath})

NextMinify == MinifyCommand

SpecMinify == InitMinify /\ [][NextMinify]_vars

(***************************************************************************)
(* SpecConfig: reloading the configuration while override files and        *)
(* settings change and documents are minified.                             *)
(***************************************************************************)
ConfigSettings ==
    {[DefaultSettings EXCEPT !.genJSmap = gj, !.genCSSmap = gc] :
        gj \in BOOLEAN, gc \in BOOLEAN}

ConfigDocs == {Doc(SrcDir, <<"a", ".", "a">>, l, FALSE) : l \in {"javascript", "css"}}

InitConfig ==
    \E ws \in BOOLEAN, d \in ConfigDocs,
       rc \in [js : RcStates, css : RcStates] :
        /\ ws \/ rc = NoRcFiles
        /\ Activated(DefaultSettings, ws, rc, <<d>>, {d.fsPath})

NextConfig ==
    \/ LoadConfigCommand
    \/ \E st \in ConfigSettings : ChangeConfiguration(st)
    \/ \E k \in {"js", "css"}, v \in RcStates : EditRcFile(k, v)
    \/ MinifyCommand

SpecConfig == InitConfig /\ [][NextConfig]_vars

(***************************************************************************)
(* SpecSave: documents are saved while the user moves between editors and  *)
(* changes minifyOnSave.                                                   *)
(***************************************************************************)
SaveSettings ==
    {[DefaultSettings EXCEPT !.minifyOnSave = m, !.hideButton = h] :
        m \in {"yes", "no", "exists", "true", "false"}, h \in BOOLEAN}

\* /w/s/a.a (JavaScript), /w/a.min.a (CSS) and /w/s/a (HTML)
SaveDocs ==
    {Doc(SrcDir, <<"a", ".", "a">>, "javascript", FALSE),
     Doc(RootDir, <<"a", ".">> \o MIN \o <<".", "a">>, "css", FALSE),
     Doc(SrcDir, <<"a">>, "html", FALSE)}

InitSave ==
    \E ws \in BOOLEAN, act \in {<<>>} \cup {<<d>> : d \in SaveDocs} :
        Activated(DefaultSettings, ws, NoRcFiles, act, {d.fsPath : d \in SaveDocs})

NextSave ==
    \/ \E d \in SaveDocs : SaveDocument(d)
    \/ \E a \in {<<>>} \cup {<<d>> : d \in SaveDocs} : SwitchEditor(a)
    \/ \E st \in SaveSettings : ChangeConfiguration(st)
    \/ OpenTextDocument

SpecSave == InitSave /\ [][NextSave]_vars

(***************************************************************************)
(* Claims about getMinOutPath (SpecPath) and minify (SpecMinify).          *)
(***************************************************************************)
Supported(d) == d.languageId \in {"javascript", "css"}

\* the base name without its extension, and the name the claim describes:
\* that stem, then the postfix tokens, then the extension
Stem(base) == SubSeq(base, 1, Len(base) - Len(extname(base)))
Token(t) == IF t = <<>> THEN <<>> ELSE <<".">> \o t
ClaimedName(cfg, base) ==
    Stem(base) \o Token(cfg.jsPostfix) \o Token(cfg.cssPostfix) \o extname(base)
ConfiguredDir(cfg, d) ==
    IF d.languageId = "javascript" THEN cfg.jsMinPath ELSE cfg.cssMinPath

\* C3: for a JS or CSS document getMinOutPath returns the stripped base
\* name, the postfix tokens and the original extension, in the configured
\* output directory under the workspace root when one is configured, in the
\* source directory otherwise.
C3_OutPathFormat ==
    (run.op = "getMinOutPath" /\ Supported(run.saved[1])) =>
        LET d == run.saved[1]
            out == run.checked[1]
            m == ConfiguredDir(config, d)
        IN  /\ basename(out) = ClaimedName(config, basename(d.fsPath))
            /\ (m # <<>> /\ hasWorkspace) => dirname(out) = pathJoin(RootDir \o <<m>>)
            /\ m = <<>> => dirname(out) = dirname(d.fsPath)

\* the dot-separated segments of the document minify() ran on
RunSegs == split(basename(run.doc[1].fsPath), ".")

MinifierSuccess == run.result \in {"code", "codemap", "styles", "stylesmap"}
ErrorShown == \E i \in 1..Len(run.msgs) : run.msgs[i] \in {MinifyFailed, SyntaxError}
Aborted == run.invoked = "none" /\ run.writes = <<>>

\* C1 as claimed: whenever the second-to-last dot-segment of the document's
\* file name is the marker "min", minify() invokes no minifier and writes
\* no file, for every number of segments and every configured postfix.
C1_MarkerAlwaysAborts ==
    (run.op = "minify" /\ run.doc # <<>>
        /\ Len(RunSegs) >= 2 /\ RunSegs[Len(RunSegs) - 1] = MIN) => Aborted

\* C1 amended: whenever the file name has at least three dot-segments and
\* the second-to-last is "min", minify() invokes no minifier and writes no
\* file, for every configured postfix.
C1_MinMarkerAborts ==
    (run.op = "minify" /\ run.doc # <<>>
        /\ Len(RunSegs) >= 3 /\ RunSegs[Len(RunSegs) - 1] = MIN) => Aborted

C1_Witness ==
    /\ run.op = "minify"
    /\ run.doc # <<>>
    /\ Supported(run.doc[1]) /\ ~run.doc[1].isUntitled
    /\ Len(RunSegs) >= 3 /\ RunSegs[Len(RunSegs) - 1] = MIN
    /\ config.jsPostfix = <<>> /\ config.cssPostfix = <<>>
    /\ run.msgs = <<"warning: File already minified.">>

\* C2: a run of minify() writes a file only if the minifier returned a
\* non-empty result in that run; when the invoked minifier throws or returns
\* an empty or missing result, an error message is shown and nothing is
\* written.
C2_WritesOnlyAfterSuccess ==
    run.called =>
        /\ run.writes # <<>> => (run.invoked # "none" /\ MinifierSuccess)
        /\ (run.invoked # "none" /\ ~MinifierSuccess) =>
               (run.writes = <<>> /\ ErrorShown)

C2_Witness ==
    /\ run.called
    /\ run.invoked = "js"
    /\ run.result = "empty"
    /\ run.writes = <<>>
    /\ ErrorShown

\* the four validation guards, stated on the document and the disk
NoDocument == run.doc = <<>>
NeverSaved == run.doc # <<>> /\ run.doc[1].isUntitled
Unsupported == run.doc # <<>> /\ ~Supported(run.doc[1])
MinMarked == run.doc # <<>> /\ Len(RunSegs) >= 3 /\ RunSegs[Len(RunSegs) - 1] = MIN
OutDirAbsent ==
    /\ run.doc # <<>>
    /\ Supported(run.doc[1])
    /\ ~existsSync(files, dirname(getMinOutPath(config, hasWorkspace, run.doc[1])))
AnyGuard == NoDocument \/ NeverSaved \/ Unsupported \/ MinMarked \/ OutDirAbsent

\* C4 as claimed: each validation guard ends minify() with a message shown
\* and no file written.
C4_GuardsReportAndAbort ==
    (run.op = "minify" /\ AnyGuard) => (Aborted /\ run.msgs # <<>>)

\* C4 amended: each validation guard ends minify() with no minifier invoked
\* and no file written; a message is shown in every case but that of no
\* active document, which returns silently.
C4_GuardsAbort ==
    (run.op = "minify" /\ AnyGuard) =>
        /\ Aborted
        /\ ~NoDocument => Len(run.msgs) = 1
        /\ NoDocument => run.msgs = <<>>

C4_Witness ==
    /\ run.op = "minify"
    /\ OutDirAbsent /\ ~NeverSaved /\ ~MinMarked
    /\ run.msgs = <<"warning: Could not write file to folder. Path not found.">>
    /\ run.writes = <<>>

\* C5: no write of minify() targets the path of the source document.
C5_SourceNeverWritten ==
    (run.called /\ run.doc # <<>>) =>
        \A i \in 1..Len(run.writes) : run.writes[i] # run.doc[1].fsPath

\* C6 as claimed: a run of minify() leaves the process-wide configuration
\* unchanged.
C6_MinifyKeepsConfig == [][run'.op = "minify" => config' = config]_vars

\* C6 amended: a run of minify() changes nothing of the configuration but
\* the sourceMap option of the js blob, and that only when genJSmap is on and
\* the JS minifier is invoked, or the sourceMap option of the css blob, and
\* that only when genCSSmap is on and the CSS minifier is invoked.
C6_MinifyChangesOnlySourceMap ==
    [][run'.op = "minify" =>
        /\ config' = [config EXCEPT !.js.sourceMap = config'.js.sourceMap,
                                    !.css.sourceMap = config'.css.sourceMap]
        /\ config'.js # config.js => (config.genJSmap /\ run'.invoked = "js")
        /\ config'.css # config.css => (config.genCSSmap /\ run'.invoked = "css")]_vars

C6_Witness ==
    /\ run.op = "minify"
    /\ run.invoked = "js"
    /\ config.genJSmap
    /\ config.js # settings.js
    /\ config = [settings EXCEPT !.js.sourceMap = config.js.sourceMap]

(***************************************************************************)
(* Claims about the save handler (SpecSave).                               *)
(***************************************************************************)
\* C7: a save with minifyOnSave "exists" triggers no minify when the derived
\* output file of the saved document does not exist; none is triggered for
\* "no" and false; one is triggered for "yes" and true, and for "exists"
\* with the output file present (the saved document being JS or CSS, the
\* only ones with an output file; a save of another document triggers none).
C7_SaveTriggers ==
    [][run'.op = "save" =>
        LET d == run'.saved[1]
            m == config.minifyOnSave
            present == existsSync(files, getMinOutPath(config, hasWorkspace, d))
        IN  /\ (Supported(d) /\ m = "exists" /\ ~present) => ~run'.called
            /\ m \in {"no", "false"} => ~run'.called
            /\ (Supported(d) /\ m \in {"yes", "true"}) => run'.called
            /\ (Supported(d) /\ m = "exists" /\ present) => run'.called
            /\ ~Supported(d) => ~run'.called]_vars

C7_Witness ==
    /\ run.op = "save"
    /\ Supported(run.saved[1])
    /\ config.minifyOnSave = "exists"
    /\ ~existsSync(files, getMinOutPath(config, hasWorkspace, run.saved[1]))
    /\ ~run.called
    /\ run.writes = <<>>

\* C10: when a save triggers minify(), the document that is handed to a
\* minifier is the saved one, and what is written goes to the output path
\* the save handler computed (and its map).
C10_SavedDocIsMinified ==
    (run.op = "save" /\ run.called) =>
        /\ run.invoked # "none" => run.doc = run.saved
        /\ \A i \in 1..Len(run.writes) :
               run.writes[i] \in {run.checked[1], pathPlus(run.checked[1], MAPSUFFIX)}

(***************************************************************************)
(* Claims about loadConfig (SpecConfig).                                   *)
(***************************************************************************)
\* the editor settings merged with the override files that can be read
FreshConfig ==
    [settings EXCEPT
        !.js = IF hasWorkspace /\ rcfiles.js = "valid" THEN parseRc("uglifyrc") ELSE @,
        !.css = IF hasWorkspace /\ rcfiles.css = "valid" THEN parseRc("cleancssrc") ELSE @]

\* C8: after the reload command or a settings change, the process-wide
\* configuration is the one freshly merged from the settings and the
\* readable override files, with or without a workspace folder.
C8_ReloadIsFresh ==
    run.op \in {"loadConfig", "changeConfig"} => config = FreshConfig

Reported(m) == \E i \in 1..Len(run.msgs) : run.msgs[i] = m

\* C9: when an override file exists and cannot be read or parsed, loadConfig
\* reports it, keeps the editor's value of that blob, still applies the
\* other override if that one is valid, and returns the editor's value of
\* every other field.
C9_MalformedOverrideSkipped ==
    (run.op \in {"activate", "loadConfig", "changeConfig"} /\ hasWorkspace) =>
        LET c == run.returned[1]
        IN  /\ rcfiles.js = "malformed" =>
                /\ Reported("error: Failed to parse uglifyrc")
                /\ c.js = settings.js
                /\ rcfiles.css = "valid" => c.css = parseRc("cleancssrc")
                /\ rcfiles.css = "absent" => c.css = settings.css
            /\ rcfiles.css = "malformed" =>
                /\ Reported("error: Failed to parse cleancssrc")
                /\ c.css = settings.css
                /\ rcfiles.js = "valid" => c.js = parseRc("uglifyrc")
                /\ rcfiles.js = "absent" => c.js = settings.js
            /\ c = [settings EXCEPT !.js = c.js, !.css = c.css]

C9_Witness ==
    /\ run.op = "loadConfig"
    /\ hasWorkspace
    /\ rcfiles.js = "malformed"
    /\ rcfiles.css = "valid"
    /\ Reported("error: Failed to parse uglifyrc")
    /\ run.returned[1].js = settings.js
    /\ run.returned[1].css = parseRc("cleancssrc")
    /\ config = run.returned[1]

====
